---- MODULE Spec2Model ----
(***************************************************************************)
(* The simply typed lambda calculus with records, variants, literals and   *)
(* pattern matching of examples/stlc_data.rs: the substitution, the        *)
(* pattern matcher, the call-by-value evaluator and the bidirectional type *)
(* checker, over the locally nameless binding representation of moniker.   *)
(***************************************************************************)
EXTENDS Integers, Sequences, FiniteSets, TLC

VARIABLES expr, fresh, out

vars == <<expr, fresh, out>>

RECURSIVE NBinders(_), NBindersFields(_), Binders(_), BindersFields(_)
RECURSIVE freshen(_, _), freshenFields(_, _)
RECURSIVE close_term(_, _, _), close_fields(_, _, _), close_clauses(_, _, _)
RECURSIVE open_term(_, _, _), open_fields(_, _, _), open_clauses(_, _, _)
RECURSIVE pattern_eq(_, _), pattern_eq_fields(_, _)
RECURSIVE term_eq(_, _), term_eq_fields(_, _), term_eq_clauses(_, _)
RECURSIVE substs(_, _), substs_fields(_, _), substs_clauses(_, _)
RECURSIVE match_expr(_, _), match_fields(_, _)
RECURSIVE eval(_, _), evalApp(_, _), evalRecord(_, _), evalFields(_, _)
RECURSIVE evalProj(_, _), evalTag(_, _), evalCase(_, _), evalClauses(_, _, _)
RECURSIVE check_expr(_, _, _, _), infer_expr(_, _, _), check_clauses(_, _, _, _, _, _)
RECURSIVE checkLam(_, _, _, _), checkTag(_, _, _, _), checkCase(_, _, _, _)
RECURSIVE inferAnn(_, _, _), inferLam(_, _, _), inferApp(_, _, _)
RECURSIVE inferRecord(_, _, _), infer_fields(_, _, _), inferProj(_, _, _)
RECURSIVE check_pattern(_, _, _), infer_pattern(_, _), infer_pattern_fields(_, _)

(***************************************************************************)
(* Bounds of the model.                                                    *)
(***************************************************************************)
\* The evaluator gives up (Diverged) after this many calls of eval.
MaxSteps == 100

\* The depth to which the seeds are wrapped in constructors.
MaxDepth == 2

(***************************************************************************)
(* Types (enum Type).  Types carry no binders.                             *)
(***************************************************************************)
TInt == [k |-> "TInt"]
TFloat == [k |-> "TFloat"]
TString == [k |-> "TString"]
TArrow(param, ret) == [k |-> "TArrow", param |-> param, ret |-> ret]
TRecord(fields) == [k |-> "TRecord", tfields |-> fields]
TVariant(variants) == [k |-> "TVariant", tfields |-> variants]

(***************************************************************************)
(* Literals (enum Literal).  The derived PartialEq compares the kind and   *)
(* the value; a Float NaN is unequal to every Float, itself included.      *)
(***************************************************************************)
LInt(i) == [lk |-> "Int", i |-> i]
LFloat(f) == [lk |-> "Float", f |-> f]
LString(s) == [lk |-> "String", s |-> s]
NaN == "NaN"

LiteralEq(a, b) ==
    /\ a.lk = b.lk
    /\ CASE a.lk = "Int" -> a.i = b.i
         [] a.lk = "Float" -> a.f = b.f /\ a.f # NaN
         [] a.lk = "String" -> a.s = b.s

(***************************************************************************)
(* Free variables: a user name (id 0) or a generated token (id > 0, the    *)
(* name kept as a hint).  A generated token's hint is a function of its    *)
(* id, so equality of the records is equality of the tokens.               *)
(***************************************************************************)
FreeVarUser(name) == [name |-> name, id |-> 0]
FreeVarGen(id, name) == [name |-> name, id |-> id]

(***************************************************************************)
(* Patterns (enum Pattern).                                                *)
(***************************************************************************)
PAnn(pattern, ty) == [k |-> "PAnn", pattern |-> pattern, ty |-> ty]
PLiteral(lit) == [k |-> "PLiteral", lit |-> lit]
PBinder(free_var) == [k |-> "PBinder", free_var |-> free_var]
PRecord(fields) == [k |-> "PRecord", pfields |-> fields]
PTag(label, pattern) == [k |-> "PTag", label |-> label, pattern |-> pattern]

(***************************************************************************)
(* Expressions (enum Expr).  A variable is Free(token) or                  *)
(* Bound(scope offset, binder index).                                      *)
(***************************************************************************)
Ann(e, ty) == [k |-> "Ann", e |-> e, ty |-> ty]
Literal(lit) == [k |-> "Literal", lit |-> lit]
Var(free_var) == [k |-> "Var", free_var |-> free_var]
BoundVar(offset, index) == [k |-> "Bound", offset |-> offset, index |-> index]
Lam(scope) == [k |-> "Lam", scope |-> scope]
App(fun, arg) == [k |-> "App", fun |-> fun, arg |-> arg]
Record(fields) == [k |-> "Record", fields |-> fields]
Proj(e, label) == [k |-> "Proj", e |-> e, label |-> label]
Tag(label, e) == [k |-> "Tag", label |-> label, e |-> e]
Case(e, clauses) == [k |-> "Case", e |-> e, clauses |-> clauses]

\* Scope { unsafe_pattern, unsafe_body }
Scope(pattern, body) == [unsafe_pattern |-> pattern, unsafe_body |-> body]

(***************************************************************************)
(* The binding representation (moniker): binders of a pattern in           *)
(* left-to-right order, bind (Scope::new) and unbind.                      *)
(***************************************************************************)
NBinders(p) ==
    CASE p.k = "PAnn" -> NBinders(p.pattern)
      [] p.k = "PLiteral" -> 0
      [] p.k = "PBinder" -> 1
      [] p.k = "PRecord" -> NBindersFields(p.pfields)
      [] p.k = "PTag" -> NBinders(p.pattern)

NBindersFields(fs) ==
    IF fs = <<>> THEN 0 ELSE NBinders(fs[1][2]) + NBindersFields(Tail(fs))

Binders(p) ==
    CASE p.k = "PAnn" -> Binders(p.pattern)
      [] p.k = "PLiteral" -> <<>>
      [] p.k = "PBinder" -> <<p.free_var>>
      [] p.k = "PRecord" -> BindersFields(p.pfields)
      [] p.k = "PTag" -> Binders(p.pattern)

BindersFields(fs) ==
    IF fs = <<>> THEN <<>> ELSE Binders(fs[1][2]) \o BindersFields(Tail(fs))

\* The pattern with every binder site given a newly generated token, the
\* first one taking the id n.
freshen(p, n) ==
    CASE p.k = "PAnn" -> PAnn(freshen(p.pattern, n), p.ty)
      [] p.k = "PLiteral" -> p
      [] p.k = "PBinder" -> PBinder(FreeVarGen(n, p.free_var.name))
      [] p.k = "PRecord" -> PRecord(freshenFields(p.pfields, n))
      [] p.k = "PTag" -> PTag(p.label, freshen(p.pattern, n))

freshenFields(fs, n) ==
    IF fs = <<>> THEN <<>>
    ELSE <<<<fs[1][1], freshen(fs[1][2], n)>>>>
             \o freshenFields(Tail(fs), n + NBinders(fs[1][2]))

\* The index of the first binder of bs that is the token fv, 0 when none is.
BinderIndex(bs, fv) ==
    IF \E i \in 1..Len(bs) : bs[i] = fv
    THEN CHOOSE i \in 1..Len(bs) : bs[i] = fv /\ \A j \in 1..(i - 1) : bs[j] # fv
    ELSE 0

\* Free occurrences of the binders bs become Bound(depth, index).
close_term(e, depth, bs) ==
    CASE e.k = "Ann" -> Ann(close_term(e.e, depth, bs), e.ty)
      [] e.k = "Literal" -> e
      [] e.k = "Var" ->
            IF BinderIndex(bs, e.free_var) = 0 THEN e
            ELSE BoundVar(depth, BinderIndex(bs, e.free_var) - 1)
      [] e.k = "Bound" -> e
      [] e.k = "Lam" ->
            Lam(Scope(e.scope.unsafe_pattern,
                      close_term(e.scope.unsafe_body, depth + 1, bs)))
      [] e.k = "App" -> App(close_term(e.fun, depth, bs), close_term(e.arg, depth, bs))
      [] e.k = "Record" -> Record(close_fields(e.fields, depth, bs))
      [] e.k = "Proj" -> Proj(close_term(e.e, depth, bs), e.label)
      [] e.k = "Tag" -> Tag(e.label, close_term(e.e, depth, bs))
      [] e.k = "Case" ->
            Case(close_term(e.e, depth, bs), close_clauses(e.clauses, depth, bs))

close_fields(fs, depth, bs) ==
    [i \in 1..Len(fs) |-> <<fs[i][1], close_term(fs[i][2], depth, bs)>>]

close_clauses(cs, depth, bs) ==
    [i \in 1..Len(cs) |->
        Scope(cs[i].unsafe_pattern, close_term(cs[i].unsafe_body, depth + 1, bs))]

\* Bound(depth, index) becomes the free variable of the binder bs[index].
open_term(e, depth, bs) ==
    CASE e.k = "Ann" -> Ann(open_term(e.e, depth, bs), e.ty)
      [] e.k = "Literal" -> e
      [] e.k = "Var" -> e
      [] e.k = "Bound" ->
            IF e.offset = depth /\ e.index < Len(bs) THEN Var(bs[e.index + 1]) ELSE e
      [] e.k = "Lam" ->
            Lam(Scope(e.scope.unsafe_pattern,
                      open_term(e.scope.unsafe_body, depth + 1, bs)))
      [] e.k = "App" -> App(open_term(e.fun, depth, bs), open_term(e.arg, depth, bs))
      [] e.k = "Record" -> Record(open_fields(e.fields, depth, bs))
      [] e.k = "Proj" -> Proj(open_term(e.e, depth, bs), e.label)
      [] e.k = "Tag" -> Tag(e.label, open_term(e.e, depth, bs))
      [] e.k = "Case" ->
            Case(open_term(e.e, depth, bs), open_clauses(e.clauses, depth, bs))

open_fields(fs, depth, bs) ==
    [i \in 1..Len(fs) |-> <<fs[i][1], open_term(fs[i][2], depth, bs)>>]

open_clauses(cs, depth, bs) ==
    [i \in 1..Len(cs) |->
        Scope(cs[i].unsafe_pattern, open_term(cs[i].unsafe_body, depth + 1, bs))]

\* Scope::new(pattern, body)
bind(pattern, body) == Scope(pattern, close_term(body, 0, Binders(pattern)))

\* scope.unbind(), the generator standing at n: the opened pattern and body,
\* and the generator after the pattern's binders took their tokens.
unbind(scope, n) ==
    LET pattern == freshen(scope.unsafe_pattern, n)
    IN  [pattern |-> pattern,
         body |-> open_term(scope.unsafe_body, 0, Binders(pattern)),
         next |-> n + NBinders(scope.unsafe_pattern)]

(***************************************************************************)
(* Alpha-equivalence (term_eq, pattern_eq): binder tokens are ignored,     *)
(* bound coordinates and free tokens must agree.                           *)
(***************************************************************************)
pattern_eq(p, q) ==
    /\ p.k = q.k
    /\ CASE p.k = "PAnn" -> pattern_eq(p.pattern, q.pattern) /\ p.ty = q.ty
         [] p.k = "PLiteral" -> p.lit = q.lit
         [] p.k = "PBinder" -> TRUE
         [] p.k = "PRecord" -> pattern_eq_fields(p.pfields, q.pfields)
         [] p.k = "PTag" -> p.label = q.label /\ pattern_eq(p.pattern, q.pattern)

pattern_eq_fields(fs, gs) ==
    /\ Len(fs) = Len(gs)
    /\ \A i \in 1..Len(fs) : fs[i][1] = gs[i][1] /\ pattern_eq(fs[i][2], gs[i][2])

term_eq(a, b) ==
    /\ a.k = b.k
    /\ CASE a.k = "Ann" -> term_eq(a.e, b.e) /\ a.ty = b.ty
         [] a.k = "Literal" -> a.lit = b.lit
         [] a.k = "Var" -> a.free_var = b.free_var
         [] a.k = "Bound" -> a.offset = b.offset /\ a.index = b.index
         [] a.k = "Lam" ->
               /\ pattern_eq(a.scope.unsafe_pattern, b.scope.unsafe_pattern)
               /\ term_eq(a.scope.unsafe_body, b.scope.unsafe_body)
         [] a.k = "App" -> term_eq(a.fun, b.fun) /\ term_eq(a.arg, b.arg)
         [] a.k = "Record" -> term_eq_fields(a.fields, b.fields)
         [] a.k = "Proj" -> term_eq(a.e, b.e) /\ a.label = b.label
         [] a.k = "Tag" -> a.label = b.label /\ term_eq(a.e, b.e)
         [] a.k = "Case" -> term_eq(a.e, b.e) /\ term_eq_clauses(a.clauses, b.clauses)
         [] OTHER -> TRUE

term_eq_fields(fs, gs) ==
    /\ Len(fs) = Len(gs)
    /\ \A i \in 1..Len(fs) : fs[i][1] = gs[i][1] /\ term_eq(fs[i][2], gs[i][2])

term_eq_clauses(cs, ds) ==
    /\ Len(cs) = Len(ds)
    /\ \A i \in 1..Len(cs) :
          /\ pattern_eq(cs[i].unsafe_pattern, ds[i].unsafe_pattern)
          /\ term_eq(cs[i].unsafe_body, ds[i].unsafe_body)

(***************************************************************************)
(* RcExpr::substs: the first mapping whose name is the variable wins;      *)
(* scopes are entered through their unsafe body, patterns are left alone.  *)
(***************************************************************************)
FindMapping(mappings, free_var) ==
    IF \E i \in 1..Len(mappings) : mappings[i][1] = free_var
    THEN CHOOSE i \in 1..Len(mappings) :
            /\ mappings[i][1] = free_var
            /\ \A j \in 1..(i - 1) : mappings[j][1] # free_var
    ELSE 0

substs(e, mappings) ==
    CASE e.k = "Ann" -> Ann(substs(e.e, mappings), e.ty)
      [] e.k = "Var" ->
            IF FindMapping(mappings, e.free_var) = 0 THEN e
            ELSE mappings[FindMapping(mappings, e.free_var)][2]
      [] e.k = "Bound" -> e
      [] e.k = "Literal" -> e
      [] e.k = "Lam" ->
            Lam(Scope(e.scope.unsafe_pattern, substs(e.scope.unsafe_body, mappings)))
      [] e.k = "App" -> App(substs(e.fun, mappings), substs(e.arg, mappings))
      [] e.k = "Record" -> Record(substs_fields(e.fields, mappings))
      [] e.k = "Proj" -> Proj(substs(e.e, mappings), e.label)
      [] e.k = "Tag" -> Tag(e.label, substs(e.e, mappings))
      [] e.k = "Case" -> Case(substs(e.e, mappings), substs_clauses(e.clauses, mappings))

substs_fields(fs, mappings) ==
    [i \in 1..Len(fs) |-> <<fs[i][1], substs(fs[i][2], mappings)>>]

substs_clauses(cs, mappings) ==
    [i \in 1..Len(cs) |->
        Scope(cs[i].unsafe_pattern, substs(cs[i].unsafe_body, mappings))]

(***************************************************************************)
(* match_expr: None, or Some(the bindings in the pattern's binder order).  *)
(***************************************************************************)
None == [some |-> FALSE]
Some(mappings) == [some |-> TRUE, mappings |-> mappings]

\* A mutation of match_fields: the labels are not compared.
match_fields_labelsIgnored(pattern_fields, expr_fields) ==
    IF pattern_fields = <<>> THEN Some(<<>>)
    ELSE LET m == match_expr(pattern_fields[1][2], expr_fields[1][2])
         IN  IF ~m.some THEN None
             ELSE LET rest == match_fields(Tail(pattern_fields), Tail(expr_fields))
                  IN  IF ~rest.some THEN None
                      ELSE Some(m.mappings \o rest.mappings)

\* A mutation of matchBinder: the binding is dropped.
matchBinder_dropped(pattern, e) == Some(<<>>)

\* (&Pattern::Binder(Binder(ref free_var)), _)
matchBinder(pattern, e) == Some(<<<<pattern.free_var, e>>>>)

match_expr(pattern, e) ==
    CASE pattern.k = "PAnn" -> match_expr(pattern.pattern, e)
      [] pattern.k = "PLiteral" /\ e.k = "Literal" /\ LiteralEq(pattern.lit, e.lit) ->
            Some(<<>>)
      [] pattern.k = "PBinder" -> matchBinder(pattern, e)
      [] pattern.k = "PRecord" /\ e.k = "Record" /\ Len(pattern.pfields) = Len(e.fields) ->
            match_fields(pattern.pfields, e.fields)
      [] pattern.k = "PTag" /\ e.k = "Tag" /\ pattern.label = e.label ->
            match_expr(pattern.pattern, e.e)
      [] OTHER -> None

\* The loop over the zipped fields: a label mismatch or a failed sub-match
\* returns None at once.
match_fields(pattern_fields, expr_fields) ==
    IF pattern_fields = <<>> THEN Some(<<>>)
    ELSE IF pattern_fields[1][1] # expr_fields[1][1] THEN None
    ELSE LET m == match_expr(pattern_fields[1][2], expr_fields[1][2])
         IN  IF ~m.some THEN None
             ELSE LET rest == match_fields(Tail(pattern_fields), Tail(expr_fields))
                  IN  IF ~rest.some THEN None
                      ELSE Some(m.mappings \o rest.mappings)

(***************************************************************************)
(* eval.  st is the evaluation's state: next, the fresh-token generator,   *)
(* and steps, the calls of eval so far.  The result is the value and the   *)
(* state after; Diverged stands for an evaluation cut after MaxSteps.      *)
(***************************************************************************)
Diverged == [k |-> "Diverged"]

Ret(v, st) == [v |-> v, st |-> st, div |-> FALSE]

Cut(st) == [v |-> Diverged, st |-> st, div |-> TRUE]

\* A mutation of evalApp: a stuck application is returned with its function
\* and its argument evaluated.
evalApp_stuckEvaluated(e, st) ==
    LET f == eval(e.fun, st)
    IN  IF f.div THEN f
        ELSE IF f.v.k = "Lam"
        THEN LET u == unbind(f.v.scope, f.st.next)
                 a == eval(e.arg, [f.st EXCEPT !.next = u.next])
             IN  IF a.div THEN a
                 ELSE LET m == match_expr(u.pattern, a.v)
                      IN  IF ~m.some THEN Ret(App(f.v, a.v), a.st)
                          ELSE eval(substs(u.body, m.mappings), a.st)
        ELSE Ret(e, f.st)

\* A mutation of evalApp: the body is returned as substituted, not evaluated.
evalApp_bodyNotEvaluated(e, st) ==
    LET f == eval(e.fun, st)
    IN  IF f.div THEN f
        ELSE IF f.v.k = "Lam"
        THEN LET u == unbind(f.v.scope, f.st.next)
                 a == eval(e.arg, [f.st EXCEPT !.next = u.next])
             IN  IF a.div THEN a
                 ELSE LET m == match_expr(u.pattern, a.v)
                      IN  IF ~m.some THEN Ret(e, a.st)
                          ELSE Ret(substs(u.body, m.mappings), a.st)
        ELSE Ret(e, f.st)

\* A mutation of evalApp: after a match the application itself is evaluated
\* again, not the substituted body.
evalApp_evaluatesItself(e, st) ==
    LET f == eval(e.fun, st)
    IN  IF f.div THEN f
        ELSE IF f.v.k = "Lam"
        THEN LET u == unbind(f.v.scope, f.st.next)
                 a == eval(e.arg, [f.st EXCEPT !.next = u.next])
             IN  IF a.div THEN a
                 ELSE LET m == match_expr(u.pattern, a.v)
                      IN  IF ~m.some THEN Ret(e, a.st)
                          ELSE eval(e, a.st)
        ELSE Ret(e, f.st)

\* A mutation of evalApp: the argument is bound as written, not evaluated.
evalApp_argNotEvaluated(e, st) ==
    LET f == eval(e.fun, st)
    IN  IF f.div THEN f
        ELSE IF f.v.k = "Lam"
        THEN LET u == unbind(f.v.scope, f.st.next)
                 a == eval(e.arg, [f.st EXCEPT !.next = u.next])
             IN  IF a.div THEN a
                 ELSE LET m == match_expr(u.pattern, e.arg)
                      IN  IF ~m.some THEN Ret(e, a.st)
                          ELSE eval(substs(u.body, m.mappings), a.st)
        ELSE Ret(e, f.st)

evalApp(e, st) ==
    LET f == eval(e.fun, st)
    IN  IF f.div THEN f
        ELSE IF f.v.k = "Lam"
        THEN LET u == unbind(f.v.scope, f.st.next)
                 a == eval(e.arg, [f.st EXCEPT !.next = u.next])
             IN  IF a.div THEN a
                 ELSE LET m == match_expr(u.pattern, a.v)
                      IN  IF ~m.some THEN Ret(e, a.st)
                          ELSE eval(substs(u.body, m.mappings), a.st)
        ELSE Ret(e, f.st)

\* The fields evaluated left to right: the evaluated fields and the state.
evalFields(fs, st) ==
    IF fs = <<>> THEN Ret(<<>>, st)
    ELSE LET h == eval(fs[1][2], st)
         IN  IF h.div THEN h
             ELSE LET t == evalFields(Tail(fs), h.st)
                  IN  IF t.div THEN t
                      ELSE Ret(<<<<fs[1][1], h.v>>>> \o t.v, t.st)

evalRecord(e, st) ==
    LET r == evalFields(e.fields, st)
    IN  IF r.div THEN r ELSE Ret(Record(r.v), r.st)

\* The index of the first field labelled label, 0 when none is.
FindLabel(fields, label) ==
    IF \E i \in 1..Len(fields) : fields[i][1] = label
    THEN CHOOSE i \in 1..Len(fields) :
            fields[i][1] = label /\ \A j \in 1..(i - 1) : fields[j][1] # label
    ELSE 0

\* `let expr = eval(expr)` shadows the projection: what is returned when the
\* field is not found is the evaluated operand.
evalProj(e, st) ==
    LET r == eval(e.e, st)
    IN  IF r.div THEN r
        ELSE IF r.v.k = "Record" /\ FindLabel(r.v.fields, e.label) # 0
        THEN Ret(r.v.fields[FindLabel(r.v.fields, e.label)][2], r.st)
        ELSE Ret(r.v, r.st)

evalTag(e, st) ==
    LET r == eval(e.e, st)
    IN  IF r.div THEN r ELSE Ret(Tag(e.label, r.v), r.st)

\* The loop over the clauses from clause i on: each clause is unbound and the
\* scrutinee evaluated again; the first match returns.
evalClauses(e, i, st) ==
    IF i > Len(e.clauses) THEN Ret(e, st)
    ELSE LET u == unbind(e.clauses[i], st.next)
             a == eval(e.e, [st EXCEPT !.next = u.next])
         IN  IF a.div THEN a
             ELSE LET m == match_expr(u.pattern, a.v)
                  IN  IF ~m.some THEN evalClauses(e, i + 1, a.st)
                      ELSE eval(substs(u.body, m.mappings), a.st)

\* A mutation of evalCase: the loop starts at the second clause.
evalCase_skipsFirst(e, st) == evalClauses(e, 2, st)

evalCase(e, st) == evalClauses(e, 1, st)

eval(e, st) ==
    IF st.steps >= MaxSteps THEN Cut(st)
    ELSE LET s1 == [st EXCEPT !.steps = @ + 1]
         IN  CASE e.k = "Ann" -> eval(e.e, s1)
               [] e.k \in {"Literal", "Var", "Bound", "Lam"} -> Ret(e, s1)
               [] e.k = "App" -> evalApp(e, s1)
               [] e.k = "Record" -> evalRecord(e, s1)
               [] e.k = "Proj" -> evalProj(e, s1)
               [] e.k = "Tag" -> evalTag(e, s1)
               [] e.k = "Case" -> evalCase(e, s1)

(***************************************************************************)
(* The typing context: a persistent map from free variables to types.      *)
(***************************************************************************)
ContextNew == [v \in {} |-> TInt]

ContextInsert(context, free_var, ty) ==
    [v \in DOMAIN context \cup {free_var} |-> IF v = free_var THEN ty ELSE context[v]]

\* telescope.extend(other): the entries of other are inserted one by one.
ContextExtend(context, other) ==
    [v \in DOMAIN context \cup DOMAIN other |->
        IF v \in DOMAIN other THEN other[v] ELSE context[v]]

\* context + &bindings: the union, which keeps the left map's value for a
\* key of both.
ContextAdd(context, bindings) ==
    [v \in DOMAIN context \cup DOMAIN bindings |->
        IF v \in DOMAIN context THEN context[v] ELSE bindings[v]]

(***************************************************************************)
(* Results of the checker.  Every result carries next, the fresh-token     *)
(* generator after the call.                                               *)
(***************************************************************************)
Ok(n) == [ok |-> TRUE, next |-> n]
OkTy(ty, n) == [ok |-> TRUE, ty |-> ty, next |-> n]
Err(msg, n) == [ok |-> FALSE, err |-> msg, next |-> n]

\* Results of the pattern functions, which unbind nothing.
POk(context) == [ok |-> TRUE, context |-> context]
POkTy(ty, context) == [ok |-> TRUE, ty |-> ty, context |-> context]
PErr(msg) == [ok |-> FALSE, err |-> msg]

(***************************************************************************)
(* infer_pattern and check_pattern.                                        *)
(***************************************************************************)
LiteralType(lit) ==
    CASE lit.lk = "Int" -> TInt
      [] lit.lk = "Float" -> TFloat
      [] lit.lk = "String" -> TString

\* The fields' types in order and the telescope extended field by field;
\* the first failing field ends the inference.
infer_pattern_fields(context, fields) ==
    IF fields = <<>> THEN POkTy(<<>>, ContextNew)
    ELSE LET last == fields[Len(fields)]
             init == infer_pattern_fields(context, SubSeq(fields, 1, Len(fields) - 1))
         IN  IF ~init.ok THEN init
             ELSE LET p == infer_pattern(context, last[2])
                  IN  IF ~p.ok THEN p
                      ELSE POkTy(Append(init.ty, <<last[1], p.ty>>),
                                 ContextExtend(init.context, p.context))

infer_pattern(context, pattern) ==
    CASE pattern.k = "PAnn" ->
            LET t == check_pattern(context, pattern.pattern, pattern.ty)
            IN  IF ~t.ok THEN t ELSE POkTy(pattern.ty, t.context)
      [] pattern.k = "PLiteral" -> POkTy(LiteralType(pattern.lit), ContextNew)
      [] pattern.k = "PBinder" -> PErr("type annotations needed")
      [] pattern.k = "PRecord" ->
            LET f == infer_pattern_fields(context, pattern.pfields)
            IN  IF ~f.ok THEN f ELSE POkTy(TRecord(f.ty), f.context)
      [] pattern.k = "PTag" -> PErr("type annotations needed")

check_pattern(context, pattern, expected_ty) ==
    CASE pattern.k = "PBinder" ->
            POk(ContextInsert(ContextNew, pattern.free_var, expected_ty))
      [] pattern.k = "PTag" /\ expected_ty.k = "TVariant" ->
            IF FindLabel(expected_ty.tfields, pattern.label) = 0
            THEN PErr("variant type did not contain the label")
            ELSE check_pattern(context, pattern.pattern,
                     expected_ty.tfields[FindLabel(expected_ty.tfields, pattern.label)][2])
      [] OTHER ->
            LET i == infer_pattern(context, pattern)
            IN  IF ~i.ok THEN i
                ELSE IF i.ty = expected_ty THEN POk(i.context)
                ELSE PErr("type mismatch")

(***************************************************************************)
(* check_expr and infer_expr.  n is the fresh-token generator.             *)
(***************************************************************************)
\* A mutation of checkLam: the body is checked against the parameter type.
checkLam_bodyAgainstParam(context, e, expected_ty, n) ==
    LET u == unbind(e.scope, n)
        bindings == check_pattern(context, u.pattern, expected_ty.param)
    IN  IF ~bindings.ok THEN Err(bindings.err, u.next)
        ELSE check_expr(ContextAdd(context, bindings.context), u.body,
                        expected_ty.param, u.next)

checkLam(context, e, expected_ty, n) ==
    LET u == unbind(e.scope, n)
        bindings == check_pattern(context, u.pattern, expected_ty.param)
    IN  IF ~bindings.ok THEN Err(bindings.err, u.next)
        ELSE check_expr(ContextAdd(context, bindings.context), u.body,
                        expected_ty.ret, u.next)

checkTag(context, e, expected_ty, n) ==
    IF FindLabel(expected_ty.tfields, e.label) = 0
    THEN Err("variant type did not contain the label", n)
    ELSE check_expr(context, e.e,
             expected_ty.tfields[FindLabel(expected_ty.tfields, e.label)][2], n)

\* The loop over the clauses from clause i on: every clause is checked.
check_clauses(context, clauses, i, expr_ty, expected_ty, n) ==
    IF i > Len(clauses) THEN Ok(n)
    ELSE LET u == unbind(clauses[i], n)
             bindings == check_pattern(context, u.pattern, expr_ty)
         IN  IF ~bindings.ok THEN Err(bindings.err, u.next)
             ELSE LET c == check_expr(ContextAdd(context, bindings.context), u.body,
                                      expected_ty, u.next)
                  IN  IF ~c.ok THEN c
                      ELSE check_clauses(context, clauses, i + 1, expr_ty,
                                         expected_ty, c.next)

checkCase(context, e, expected_ty, n) ==
    LET expr_ty == infer_expr(context, e.e, n)
    IN  IF ~expr_ty.ok THEN expr_ty
        ELSE check_clauses(context, e.clauses, 1, expr_ty.ty, expected_ty, expr_ty.next)

check_expr(context, e, expected_ty, n) ==
    CASE e.k = "Lam" /\ expected_ty.k = "TArrow" -> checkLam(context, e, expected_ty, n)
      [] e.k = "Tag" /\ expected_ty.k = "TVariant" -> checkTag(context, e, expected_ty, n)
      [] e.k = "Case" -> checkCase(context, e, expected_ty, n)
      [] OTHER ->
            LET inferred_ty == infer_expr(context, e, n)
            IN  IF ~inferred_ty.ok THEN inferred_ty
                ELSE IF inferred_ty.ty = expected_ty THEN Ok(inferred_ty.next)
                ELSE Err("type mismatch", inferred_ty.next)

inferAnn(context, e, n) ==
    LET c == check_expr(context, e.e, e.ty, n)
    IN  IF ~c.ok THEN c ELSE OkTy(e.ty, c.next)

\* A mutation of inferLam: the body is inferred without the pattern's
\* bindings.
inferLam_bindingsDropped(context, e, n) ==
    LET u == unbind(e.scope, n)
        p == infer_pattern(context, u.pattern)
    IN  IF ~p.ok THEN Err(p.err, u.next)
        ELSE LET body_ty == infer_expr(context, u.body, u.next)
             IN  IF ~body_ty.ok THEN body_ty
                 ELSE OkTy(TArrow(p.ty, body_ty.ty), body_ty.next)

inferLam(context, e, n) ==
    LET u == unbind(e.scope, n)
        p == infer_pattern(context, u.pattern)
    IN  IF ~p.ok THEN Err(p.err, u.next)
        ELSE LET body_ty == infer_expr(ContextAdd(context, p.context), u.body, u.next)
             IN  IF ~body_ty.ok THEN body_ty
                 ELSE OkTy(TArrow(p.ty, body_ty.ty), body_ty.next)

inferApp(context, e, n) ==
    LET fun_ty == infer_expr(context, e.fun, n)
    IN  IF ~fun_ty.ok THEN fun_ty
        ELSE IF fun_ty.ty.k = "TArrow"
        THEN LET arg_ty == infer_expr(context, e.arg, fun_ty.next)
             IN  IF ~arg_ty.ok THEN arg_ty
                 ELSE IF fun_ty.ty.param = arg_ty.ty THEN OkTy(fun_ty.ty.ret, arg_ty.next)
                 ELSE Err("argument type mismatch", arg_ty.next)
        ELSE Err("not a function", fun_ty.next)

\* The fields' types in order; the first failing field ends the inference.
infer_fields(context, fields, n) ==
    IF fields = <<>> THEN OkTy(<<>>, n)
    ELSE LET h == infer_expr(context, fields[1][2], n)
         IN  IF ~h.ok THEN h
             ELSE LET t == infer_fields(context, Tail(fields), h.next)
                  IN  IF ~t.ok THEN t
                      ELSE OkTy(<<<<fields[1][1], h.ty>>>> \o t.ty, t.next)

inferRecord(context, e, n) ==
    LET f == infer_fields(context, e.fields, n)
    IN  IF ~f.ok THEN f ELSE OkTy(TRecord(f.ty), f.next)

inferProj(context, e, n) ==
    LET t == infer_expr(context, e.e, n)
    IN  IF ~t.ok THEN t
        ELSE IF t.ty.k = "TRecord"
        THEN IF FindLabel(t.ty.tfields, e.label) = 0
             THEN Err("field not found in type", t.next)
             ELSE OkTy(t.ty.tfields[FindLabel(t.ty.tfields, e.label)][2], t.next)
        ELSE Err("record expected", t.next)

infer_expr(context, e, n) ==
    CASE e.k = "Ann" -> inferAnn(context, e, n)
      [] e.k = "Literal" -> OkTy(LiteralType(e.lit), n)
      [] e.k = "Var" ->
            IF e.free_var \in DOMAIN context THEN OkTy(context[e.free_var], n)
            ELSE Err("not found in context", n)
      [] e.k = "Bound" -> Err("panic: encountered a bound variable", n)
      [] e.k = "Lam" -> inferLam(context, e, n)
      [] e.k = "App" -> inferApp(context, e, n)
      [] e.k = "Record" -> inferRecord(context, e, n)
      [] e.k = "Proj" -> inferProj(context, e, n)
      [] e.k = "Tag" -> Err("type annotations needed", n)
      [] e.k = "Case" -> Err("type annotations needed", n)

(***************************************************************************)
(* The terms the front end hands over: seeds wrapped in constructors up to *)
(* MaxDepth deep, every scope made by bind, so every term is well-scoped.  *)
(***************************************************************************)
a == FreeVarUser("a")
b == FreeVarUser("b")

One == Literal(LInt(1))
Two == Literal(LInt(2))
Str == Literal(LString("s"))
NotANumber == Literal(LFloat(NaN))
RecXY == Record(<<<<"x", One>>, <<"y", Str>>>>)

TVar == TVariant(<<<<"x", TInt>>, <<"y", TString>>>>)
TRec == TRecord(<<<<"x", TInt>>, <<"y", TString>>>>)

\* \a -> a a, whose application to itself does not terminate.
SelfApp == Lam(bind(PBinder(a), App(Var(a), Var(a))))

\* (\1 -> {x = 1, y = "s"}) 2: well typed at the record type, and stuck.
StuckRec == App(Lam(bind(PLiteral(LInt(1)), RecXY)), Two)

Seeds ==
    {One, Two, NotANumber, Var(a), Var(b), SelfApp, Ann(Tag("x", One), TVar), StuckRec}

RecPattern ==
    PRecord(<<<<"x", PAnn(PBinder(a), TInt)>>, <<"y", PAnn(PBinder(b), TString)>>>>)

LiteralFirst == <<bind(PLiteral(LInt(1)), Two), bind(PBinder(a), Var(a))>>
BinderFirst == <<bind(PBinder(a), One), bind(PBinder(b), Var(b))>>
TagClauses ==
    <<bind(PTag("y", PBinder(a)), Var(a)), bind(PTag("x", PBinder(b)), Var(b)),
      bind(PTag("x", PBinder(a)), Two)>>

\* The constructors a term e is wrapped in, one hole each.
Wraps(e) ==
    << Ann(e, TInt), Ann(e, TArrow(TInt, TInt)), Ann(e, TVar),
       Lam(bind(PBinder(a), e)), Lam(bind(PAnn(PBinder(a), TInt), e)),
       Lam(bind(PLiteral(LInt(1)), e)), Lam(bind(RecPattern, e)),
       App(e, One), App(e, Ann(Two, TInt)), App(e, RecXY), App(SelfApp, e),
       App(Lam(bind(PBinder(a), e)), One),
       App(Lam(bind(PBinder(a), e)), Ann(Two, TInt)),
       Record(<<<<"x", e>>>>), Record(<<<<"x", e>>, <<"y", Str>>>>),
       Record(<<<<"y", Str>>, <<"x", e>>>>),
       Proj(e, "x"), Proj(e, "y"),
       Tag("x", e), Tag("y", e),
       Case(e, <<>>), Case(e, LiteralFirst), Case(e, BinderFirst), Case(e, TagClauses),
       Case(One, <<bind(PLiteral(LInt(2)), Two), bind(PBinder(a), e)>>) >>

NumWraps == Len(Wraps(One))

\* The seed wrapped d times, the innermost wrap first; the wrap 0 leaves the
\* term as it is.
RECURSIVE Build(_, _, _)
Build(seed, ws, d) ==
    IF d = 0 THEN seed
    ELSE LET e == Build(seed, ws, d - 1)
         IN  IF ws[d] = 0 THEN e ELSE Wraps(e)[ws[d]]

\* The contexts the driver infers in, the contexts and types it checks
\* against, and the patterns it matches the term against.
ContextAB == ContextInsert(ContextInsert(ContextNew, a, TInt), b, TString)

Contexts == {ContextNew, ContextAB}

CheckTypes == {TInt, TArrow(TInt, TInt), TVar, TRec, TRecord(<<<<"x", TVar>>>>)}

Checks == {<<ContextNew, ty>> : ty \in CheckTypes} \cup {<<ContextAB, TInt>>}

MatchPatterns ==
    { PBinder(a),
      PAnn(PLiteral(LInt(1)), TInt),
      PLiteral(LFloat(NaN)),
      PTag("x", PBinder(a)),
      PRecord(<<<<"x", PBinder(a)>>>>),
      PRecord(<<<<"x", PBinder(a)>>, <<"y", PBinder(b)>>>>),
      PRecord(<<<<"y", PBinder(a)>>, <<"x", PBinder(b)>>>>),
      PRecord(<<<<"x", PLiteral(LInt(1))>>, <<"y", PBinder(b)>>>>) }

(***************************************************************************)
(* The driver: it holds a term and calls the checker, the matcher or the   *)
(* evaluator on it, and may evaluate a value it got once more.  fresh is   *)
(* the process-wide fresh-token generator; out records the last call and   *)
(* its result.                                                             *)
(***************************************************************************)
Init ==
    /\ \E seed \in Seeds, ws \in [1..MaxDepth -> 0..NumWraps] :
          expr = Build(seed, ws, MaxDepth)
    /\ fresh = 1
    /\ out = [op |-> "none"]

\* eval(&expr)
Eval ==
    /\ out.op = "none"
    /\ LET r == eval(expr, [next |-> fresh, steps |-> 0])
       IN  /\ out' = [op |-> "eval", v |-> r.v, div |-> r.div]
           /\ fresh' = r.st.next
    /\ UNCHANGED expr

\* eval(&eval(&expr)): the value becomes the term the driver holds.
Reeval ==
    /\ out.op = "eval"
    /\ ~out.div
    /\ LET r == eval(out.v, [next |-> fresh, steps |-> 0])
       IN  /\ out' = [op |-> "reeval", v |-> r.v, div |-> r.div, from |-> expr]
           /\ fresh' = r.st.next
    /\ expr' = out.v

\* infer_expr(&context, &expr)
Infer ==
    /\ out.op = "none"
    /\ \E context \in Contexts :
          LET r == infer_expr(context, expr, fresh)
          IN  /\ out' = [op |-> "infer", context |-> context, res |-> r]
              /\ fresh' = r.next
    /\ UNCHANGED expr

\* check_expr(&context, &expr, &ty)
Check ==
    /\ out.op = "none"
    /\ \E c \in Checks :
          LET r == check_expr(c[1], expr, c[2], fresh)
          IN  /\ out' = [op |-> "check", context |-> c[1], ty |-> c[2], res |-> r]
              /\ fresh' = r.next
    /\ UNCHANGED expr

\* match_expr(&pattern, &expr)
Match ==
    /\ out.op = "none"
    /\ \E pattern \in MatchPatterns :
          out' = [op |-> "match", pattern |-> pattern, res |-> match_expr(pattern, expr)]
    /\ UNCHANGED <<expr, fresh>>

\* The evaluator's runs.
Next == Eval \/ Reeval

Spec == Init /\ [][Next]_vars

\* The type checker's runs.
NextType == Infer \/ Check

SpecType == Init /\ [][NextType]_vars

\* check_expr(&Context::new(), &eval(&expr), &ty), after check_expr accepted
\* expr at ty in the empty context.
CheckEvaluated ==
    /\ out.op = "check"
    /\ out.context = ContextNew
    /\ out.res.ok
    /\ LET r == eval(expr, [next |-> fresh, steps |-> 0])
           c == check_expr(ContextNew, r.v, out.ty, r.st.next)
       IN  IF r.div
           THEN /\ out' = [op |-> "checkEvaluated", ty |-> out.ty, v |-> r.v,
                           div |-> TRUE, ok |-> FALSE]
                /\ fresh' = r.st.next
           ELSE /\ out' = [op |-> "checkEvaluated", ty |-> out.ty, v |-> r.v,
                           div |-> FALSE, ok |-> c.ok]
                /\ fresh' = c.next
    /\ UNCHANGED expr

\* The pattern matcher's runs.
NextMatch == Match

SpecMatch == Init /\ [][NextMatch]_vars

\* The checker's runs on a term and then on its value.
NextPreserve == Check \/ CheckEvaluated

SpecPreserve == Init /\ [][NextPreserve]_vars

\* The evaluation state a call of the driver starts in.
Start == [next |-> fresh, steps |-> 0]

(***************************************************************************)
(* Properties.                                                             *)
(***************************************************************************)

\* The free variables of a term.
RECURSIVE FV(_)
FV(e) ==
    CASE e.k = "Ann" -> FV(e.e)
      [] e.k = "Var" -> {e.free_var}
      [] e.k = "Lam" -> FV(e.scope.unsafe_body)
      [] e.k = "App" -> FV(e.fun) \cup FV(e.arg)
      [] e.k = "Record" -> UNION {FV(e.fields[i][2]) : i \in 1..Len(e.fields)}
      [] e.k = "Proj" -> FV(e.e)
      [] e.k = "Tag" -> FV(e.e)
      [] e.k = "Case" ->
            FV(e.e) \cup UNION {FV(e.clauses[i].unsafe_body) : i \in 1..Len(e.clauses)}
      [] OTHER -> {}

\* The value of e, evaluated from the driver's present state.
ValueOf(e) == eval(e, Start)

\* C1: when the operand of Proj(e, label) does not evaluate to a record with
\* a field label, eval returns the original projection unchanged.
C1_ProjStuckReturnsOriginal ==
    (/\ out.op = "eval"
     /\ ~out.div
     /\ expr.k = "Proj"
     /\ LET r == ValueOf(expr.e)
        IN  ~(r.v.k = "Record" /\ \E i \in 1..Len(r.v.fields) : r.v.fields[i][1] = expr.label))
        => out.v = expr

\* The application e is stuck: its function does not evaluate to a lambda,
\* or the lambda's pattern does not match the evaluated argument.
AppIsStuck(e) ==
    LET f == ValueOf(e.fun)
    IN  /\ ~f.div
        /\ \/ f.v.k # "Lam"
           \/ LET arg == ValueOf(e.arg)
              IN  ~arg.div /\ ~match_expr(f.v.scope.unsafe_pattern, arg.v).some

\* The clauses of the case e whose pattern matches the evaluated scrutinee.
MatchingClauses(e) ==
    {i \in 1..Len(e.clauses) : match_expr(e.clauses[i].unsafe_pattern, ValueOf(e.e).v).some}

\* C7: a stuck application (the function is no lambda, or the pattern does
\* not match the argument) and a case none of whose clauses matches are
\* returned as they were given, function, argument and scrutinee unevaluated.
C7_StuckReturnedUnchanged ==
    (out.op = "eval" /\ ~out.div) =>
        /\ (expr.k = "App" /\ AppIsStuck(expr)) => out.v = expr
        /\ (expr.k = "Case" /\ MatchingClauses(expr) = {}) => out.v = expr

\* A lambda's pattern failed to match an argument that is not a value, and
\* the application came back as given.
C7_Witness ==
    /\ out.op = "eval"
    /\ ~out.div
    /\ expr.k = "App"
    /\ ValueOf(expr.fun).v.k = "Lam"
    /\ AppIsStuck(expr)
    /\ ValueOf(expr.arg).v # expr.arg
    /\ out.v = expr

\* C4: evaluating a value eval returned gives that value again, up to
\* alpha-equivalence.
C4_EvalIdempotent ==
    (out.op = "reeval" /\ ~out.div) => term_eq(out.v, expr)

\* The value of a projection that could not reduce, a stuck application, was
\* evaluated again.
C4_Witness ==
    /\ out.op = "reeval"
    /\ ~out.div
    /\ out.from.k = "Proj"
    /\ expr.k = "App"
    /\ term_eq(out.v, expr)

\* The least element of a nonempty set of numbers.
Min(S) == CHOOSE i \in S : \A j \in S : i <= j

\* What clause i of the case e gives for the evaluated scrutinee: the
\* clause's body with the match's bindings substituted, evaluated.
ClauseResult(e, i) ==
    LET u == unbind(e.clauses[i], fresh)
        m == match_expr(u.pattern, ValueOf(e.e).v)
    IN  eval(substs(u.body, m.mappings), [next |-> u.next, steps |-> 0])

\* C6: a case evaluates to what the first clause, in source order, whose
\* pattern matches the evaluated scrutinee gives, and the clauses after that
\* one do not bear on the result.
C6_FirstMatchingClause ==
    (out.op = "eval" /\ ~out.div /\ expr.k = "Case" /\ MatchingClauses(expr) # {}) =>
        LET i == Min(MatchingClauses(expr))
        IN  /\ ~ClauseResult(expr, i).div
            /\ term_eq(out.v, ClauseResult(expr, i).v)
            /\ term_eq(out.v, ValueOf(Case(expr.e, SubSeq(expr.clauses, 1, i))).v)

\* Two clauses match, the first of them is not the case's first clause, and
\* the later one would have given another result.
C6_Witness ==
    /\ out.op = "eval"
    /\ ~out.div
    /\ expr.k = "Case"
    /\ Cardinality(MatchingClauses(expr)) >= 2
    /\ Min(MatchingClauses(expr)) >= 2
    /\ \E j \in MatchingClauses(expr) : ~term_eq(ClauseResult(expr, j).v, out.v)
    /\ term_eq(out.v, ClauseResult(expr, Min(MatchingClauses(expr))).v)

\* The application e is App(Lam(bind(Binder(x), body)), v).
IsBinderRedex(e) ==
    e.k = "App" /\ e.fun.k = "Lam" /\ e.fun.scope.unsafe_pattern.k = "PBinder"

\* The x and the body of which the scope is the bind.
BinderOf(scope) == scope.unsafe_pattern.free_var
BodyOf(scope) == open_term(scope.unsafe_body, 0, <<BinderOf(scope)>>)

\* C5 as claimed: App(Lam(bind(Binder(x), body)), v) evaluates to what body
\* with v substituted for x evaluates to, for every expression v.
C5_BetaWithArgumentAsWritten ==
    (out.op = "eval" /\ ~out.div /\ IsBinderRedex(expr)) =>
        LET r == ValueOf(substs(BodyOf(expr.fun.scope),
                                <<<<BinderOf(expr.fun.scope), expr.arg>>>>))
        IN  ~r.div => term_eq(out.v, r.v)

\* C5 amended: App(Lam(bind(Binder(x), body)), v) evaluates to what body
\* with the value of v substituted for x evaluates to.
C5_BetaWithEvaluatedArgument ==
    (out.op = "eval" /\ ~out.div /\ IsBinderRedex(expr)) =>
        LET r == ValueOf(substs(BodyOf(expr.fun.scope),
                                <<<<BinderOf(expr.fun.scope), ValueOf(expr.arg).v>>>>))
        IN  ~r.div /\ term_eq(out.v, r.v)

\* A bare-binder lambda whose body uses its variable was applied to an
\* argument that is not a value.
C5_Witness ==
    /\ out.op = "eval"
    /\ ~out.div
    /\ IsBinderRedex(expr)
    /\ BinderOf(expr.fun.scope) \in FV(BodyOf(expr.fun.scope))
    /\ ValueOf(expr.arg).v # expr.arg
    /\ out.v.k = "Lam"

\* C9: an evaluation of the same term from another state of the fresh-token
\* generator gives an alpha-equivalent result, and no generated token is
\* free in the result.
C9_DeterministicUpToFreshTokens ==
    (out.op = "eval" /\ ~out.div) =>
        /\ ~ValueOf(expr).div
        /\ term_eq(out.v, ValueOf(expr).v)
        /\ \A free_var \in FV(out.v) : free_var.id = 0

\* Scopes were unbound, so the second evaluation draws other tokens, and the
\* result still holds a scope and a free variable of the term.
C9_Witness ==
    /\ out.op = "eval"
    /\ ~out.div
    /\ fresh > 1
    /\ out.v.k = "Lam"
    /\ FV(out.v) # {}
    /\ term_eq(out.v, ValueOf(expr).v)

\* The term is accepted in the empty context, by inference or against one
\* of the types.
WellTyped(e) ==
    \/ infer_expr(ContextNew, e, fresh).ok
    \/ \E ty \in CheckTypes : check_expr(ContextNew, e, ty, fresh).ok

\* C10: the evaluation of a closed term that the checker accepts in the
\* empty context returns, within MaxSteps calls of eval.
C10_WellTypedClosedTerminates ==
    (out.op = "eval" /\ FV(expr) = {} /\ WellTyped(expr)) => ~out.div

\* A closed, accepted application was reduced through an unbound scope.
C10_Witness ==
    /\ out.op = "eval"
    /\ FV(expr) = {}
    /\ WellTyped(expr)
    /\ expr.k = "App"
    /\ fresh > 1
    /\ out.v # expr
    /\ ~out.div

\* C2: a term whose type was inferred checks against that type, in the same
\* context.
C2_InferredTypeChecks ==
    (out.op = "infer" /\ out.res.ok) =>
        check_expr(out.context, expr, out.res.ty, fresh).ok

\* The type of a lambda over a record of annotated binders was inferred.
C2_Witness ==
    /\ out.op = "infer"
    /\ out.res.ok
    /\ expr.k = "Lam"
    /\ expr.scope.unsafe_pattern.k = "PRecord"
    /\ check_expr(out.context, expr, out.res.ty, fresh).ok

\* The pattern is an annotated binder, or a record of such patterns.
RECURSIVE AnnotatedBinders(_)
AnnotatedBinders(p) ==
    \/ p.k = "PAnn" /\ p.pattern.k = "PBinder"
    \/ p.k = "PRecord" /\ \A i \in 1..Len(p.pfields) : AnnotatedBinders(p.pfields[i][2])

\* The type such a pattern declares: the annotation, or the record type of
\* the fields' labels and declared types, in the pattern's field order.
RECURSIVE DeclaredType(_)
DeclaredType(p) ==
    IF p.k = "PAnn" THEN p.ty
    ELSE TRecord([i \in 1..Len(p.pfields) |->
                    <<p.pfields[i][1], DeclaredType(p.pfields[i][2])>>])

\* The bindings such a pattern makes: each binder with its annotation.
RECURSIVE DeclaredBindings(_)
DeclaredBindings(p) ==
    IF p.k = "PAnn" THEN {<<p.pattern.free_var, p.ty>>}
    ELSE UNION {DeclaredBindings(p.pfields[i][2]) : i \in 1..Len(p.pfields)}

\* The context as the set of its entries.
Entries(context) == {<<v, context[v]>> : v \in DOMAIN context}

\* C3: the type inferred for a lambda whose opened pattern infers
\* (paramType, bindings) is Arrow(paramType, bodyType), bodyType the type
\* inferred for the opened body in the context extended with exactly the
\* bindings; for a record of annotated binders paramType is the record type
\* of the labels and annotations in field order, and the bindings are the
\* binders with their annotations.
C3_LamInfersArrow ==
    (out.op = "infer" /\ expr.k = "Lam") =>
        LET u == unbind(expr.scope, fresh)
            p == infer_pattern(out.context, u.pattern)
            body_ty == infer_expr(ContextAdd(out.context, p.context), u.body, u.next)
        IN  p.ok =>
                /\ out.res.ok = body_ty.ok
                /\ body_ty.ok => out.res.ty = TArrow(p.ty, body_ty.ty)
                /\ AnnotatedBinders(u.pattern) =>
                      /\ p.ty = DeclaredType(u.pattern)
                      /\ Entries(p.context) = DeclaredBindings(u.pattern)

\* The lambda over {x = (a : Int), y = (b : String)} with body b was given
\* the type {x : Int, y : String} -> String.
C3_Witness ==
    /\ out.op = "infer"
    /\ out.context = ContextNew
    /\ expr = Lam(bind(PRecord(<<<<"x", PAnn(PBinder(a), TInt)>>,
                                 <<"y", PAnn(PBinder(b), TString)>>>>), Var(b)))
    /\ out.res.ok
    /\ out.res.ty = TArrow(TRec, TString)

\* The bindings of the fields from field i on, one field's after the other's.
RECURSIVE FieldMappings(_, _, _)
FieldMappings(pattern_fields, expr_fields, i) ==
    IF i > Len(pattern_fields) THEN <<>>
    ELSE match_expr(pattern_fields[i][2], expr_fields[i][2]).mappings
             \o FieldMappings(pattern_fields, expr_fields, i + 1)

\* The record pattern and the term have the same labels position by
\* position and every field's pattern matches the field's value.
FieldsMatch(pattern, e) ==
    /\ e.k = "Record"
    /\ Len(pattern.pfields) = Len(e.fields)
    /\ \A i \in 1..Len(pattern.pfields) :
          /\ pattern.pfields[i][1] = e.fields[i][1]
          /\ match_expr(pattern.pfields[i][2], e.fields[i][2]).some

\* C8: a record pattern matches exactly the records of the same length and
\* labels, position by position, whose fields its sub-patterns match; the
\* bindings are the fields' bindings in field order, the binders in their
\* left-to-right order; a failed match returns no bindings.
C8_RecordPatternMatch ==
    (out.op = "match" /\ out.pattern.k = "PRecord") =>
        /\ out.res.some = FieldsMatch(out.pattern, expr)
        /\ out.res.some =>
              /\ out.res.mappings = FieldMappings(out.pattern.pfields, expr.fields, 1)
              /\ [i \in 1..Len(out.res.mappings) |-> out.res.mappings[i][1]]
                    = Binders(out.pattern)
        /\ ~out.res.some => out.res = None

\* A record of two fields was matched and bound two variables.
C8_Witness ==
    /\ out.op = "match"
    /\ out.pattern.k = "PRecord"
    /\ out.res.some
    /\ Len(out.res.mappings) = 2
    /\ out.res.mappings[1][1] = a
    /\ out.res.mappings[2][1] = b

\* C11: when check_expr accepts a closed term at a type in the empty
\* context, it also accepts the term's value at that type, the value being a
\* normal form, a stuck term or what a projection that could not reduce gave.
C11_EvalPreservesTyping ==
    (out.op = "checkEvaluated" /\ FV(expr) = {} /\ ~out.div) => out.ok

\* The term holds a projection.
RECURSIVE HasProj(_)
HasProj(e) ==
    CASE e.k \in {"Literal", "Var", "Bound"} -> FALSE
      [] e.k = "Ann" -> HasProj(e.e)
      [] e.k = "Lam" -> HasProj(e.scope.unsafe_body)
      [] e.k = "App" -> HasProj(e.fun) \/ HasProj(e.arg)
      [] e.k = "Record" -> \E i \in DOMAIN e.fields : HasProj(e.fields[i][2])
      [] e.k = "Proj" -> TRUE
      [] e.k = "Tag" -> HasProj(e.e)
      [] e.k = "Case" ->
            \/ HasProj(e.e)
            \/ \E i \in DOMAIN e.clauses : HasProj(e.clauses[i].unsafe_body)

\* The term holds a type annotation on an expression.
RECURSIVE HasAnn(_)
HasAnn(e) ==
    CASE e.k \in {"Literal", "Var", "Bound"} -> FALSE
      [] e.k = "Ann" -> TRUE
      [] e.k = "Lam" -> HasAnn(e.scope.unsafe_body)
      [] e.k = "App" -> HasAnn(e.fun) \/ HasAnn(e.arg)
      [] e.k = "Record" -> \E i \in DOMAIN e.fields : HasAnn(e.fields[i][2])
      [] e.k = "Proj" -> HasAnn(e.e)
      [] e.k = "Tag" -> HasAnn(e.e)
      [] e.k = "Case" ->
            \/ HasAnn(e.e)
            \/ \E i \in DOMAIN e.clauses : HasAnn(e.clauses[i].unsafe_body)

\* Typing is not preserved even on terms without annotations: the projection
\* out of a stuck term evaluates to the stuck term, of the record's type.
PreservedWithoutAnn ==
    (out.op = "checkEvaluated" /\ FV(expr) = {} /\ ~out.div /\ ~HasAnn(expr))
        => out.ok

\* Nor on terms without projections: eval drops the annotation that let a
\* tag, a case or a lambda with a bare binder inside a record be inferred.
PreservedWithoutProj ==
    (out.op = "checkEvaluated" /\ FV(expr) = {} /\ ~out.div /\ ~HasProj(expr))
        => out.ok

\* On terms with neither, the value is accepted at the type of the term.
PreservedWithoutAnnOrProj ==
    (out.op = "checkEvaluated" /\ FV(expr) = {} /\ ~out.div
        /\ ~HasAnn(expr) /\ ~HasProj(expr)) => out.ok

====
